---------------------------- MODULE Spec2Model ----------------------------
(***************************************************************************)
(* Model of src/app.py, the LSM deferred-update dashboard.                 *)
(*                                                                         *)
(* The script is a Streamlit page: every widget interaction re-executes    *)
(* the whole script top to bottom with the widgets' current values.  The   *)
(* state is therefore the widget values plus the values the last run of    *)
(* the script computed from them.                                          *)
(*                                                                         *)
(* Number representation.  The script computes in floating point.  Here    *)
(*   - np.log10 is a fixed-point logarithm with LogScale steps per decade  *)
(*     (Log10Fix(x) = floor(LogScale * log10(x)));                         *)
(*   - costs (disk_part, regular_cost_val) are in units of 1/LogScale;     *)
(*   - a speedup is the exact rational num / (LogScale * den), kept as the *)
(*     record [num, den] with den the script's divisor max(1, deferred);   *)
(*   - latencies are in units of 1/LatencyScale ms.                        *)
(***************************************************************************)
EXTENDS Integers, Sequences, FiniteSets

VARIABLES
    N_tuples,          \* st.number_input "Total Tuples (N)"
    m_memtable,        \* st.number_input "Memtable Size (m)"
    K_indexes,         \* st.slider "Number of Indexes (K)"
    disk_seek_cost,    \* st.slider "Disk/RAM Latency Ratio"
    workload_type,     \* st.select_slider "Select Workload Type"
    log_arg,           \* the argument handed to np.log10 on line 59
    disk_part,
    regular_cost_val,
    deferred_cost_val,
    speedup_factor,
    sweep_log_args,    \* the arguments handed to np.log10 on line 90, per k
    chart_data,
    write_pct,
    throughput_std,
    throughput_def,
    latency_std,
    latency_def,
    verdict,
    error,             \* the exception the last run raised, "None" if none
    computed           \* which blocks of the script have produced their values

inputs == <<N_tuples, m_memtable, K_indexes, disk_seek_cost, workload_type>>
costParams == <<N_tuples, m_memtable, K_indexes, disk_seek_cost>>
costOutputs == <<log_arg, disk_part, regular_cost_val, deferred_cost_val,
                 speedup_factor, sweep_log_args, chart_data>>
tradeoffOutputs == <<write_pct, throughput_std, throughput_def, latency_std,
                     latency_def, verdict>>
vars == <<inputs, costOutputs, tradeoffOutputs, error, computed>>

---------------------------------------------------------------------------
(* Widget configuration, lines 33-40 and 119-123.                          *)

N_default == 10000000
m_default == 100000
K_min == 1
K_max == 15
K_default == 5
seek_min == 10
seek_max == 100
seek_default == 50

WorkloadOptions ==
    {"Read Heavy (10% Writes)", "Balanced (50% Writes)", "Write Heavy (90% Writes)"}
workload_default == "Balanced (50% Writes)"

(* Bounds of the explored inputs.  The number inputs carry no min_value or *)
(* max_value, so any integer can be typed; a small range around zero and   *)
(* the defaults are explored.                                              *)
MaxNeg == 1
MaxSmallN == 2
MaxSmallM == 2
MaxSmallK == 3
MaxWritePct == 100

NValues == (-MaxNeg .. MaxSmallN) \cup {N_default}
MValues == (-MaxNeg .. MaxSmallM) \cup {m_default, N_default}
KSlider == K_min .. K_max
SeekValues == {seek_min, seek_default, seek_max}
\* Index counts handed to the cost formulas directly, outside the slider too.
KDomain == (-MaxNeg .. MaxSmallK) \cup {K_default, K_max}
WritePctDomain == 0 .. MaxWritePct

---------------------------------------------------------------------------
(* Arithmetic helpers.                                                     *)

\* Python's builtin max on two integers.
Max(a, b) == IF a >= b THEN a ELSE b

LogScale == 4
LatencyScale == 100

\* Log10Thresholds[i] is the least integer x with x^LogScale >= 10^i, that is
\* the least integer with LogScale * log10(x) >= i.
Log10Thresholds ==
    << 2, 4, 6, 10, 18, 32, 57, 100, 178, 317, 563, 1000, 1779, 3163, 5624,
       10000, 17783, 31623, 56235, 100000, 177828, 316228, 562342, 1000000,
       1778280, 3162278, 5623414, 10000000, 17782795, 31622777, 56234133,
       100000000, 177827942, 316227767, 562341326, 1000000000 >>

\* np.log10 in fixed point: floor(LogScale * log10(x)) for an integer x >= 1.
\* The script only ever calls it with an argument >= 1.
Log10Fix(x) == Cardinality({i \in DOMAIN Log10Thresholds : Log10Thresholds[i] <= x})

\* Comparison of two speedups [num, den] with positive den (same LogScale).
RatEq(a, b) == a.num * b.den = b.num * a.den
RatGeq(a, b) == a.num * b.den >= b.num * a.den
RatGt(a, b) == a.num * b.den > b.num * a.den

---------------------------------------------------------------------------
(* Tab 1, single-point cost computation, lines 59-69.                      *)

LogArg_unguarded(N, m) == N - m
LogArg(N, m) == Max(1, N - m)

DiskPart(N, m, dsc) == Log10Fix(LogArg(N, m)) * dsc

mem_part == 1

RegularCost(N, m, K, dsc) ==
    LogScale * mem_part + DiskPart(N, m, dsc) + LogScale * (mem_part * (2 * K - 1))

DeferredCost_secondaryOnly(K) == mem_part * (K - 1)
DeferredCost(K) == mem_part * K

SpeedupFactor(reg, defc) == [num |-> reg, den |-> Max(1, defc)]

---------------------------------------------------------------------------
(* Tab 1, sweep over k_range, lines 86-92.                                 *)

range_start == 1
range_stop == 21
k_range == [i \in 1 .. (range_stop - range_start) |-> range_start + i - 1]

SweepLogArg(N, m) == Max(1, N - m)

SweepReg_drift(N, m, dsc, k) ==
    LogScale * 1 + (Log10Fix(SweepLogArg(N, m)) * dsc) + LogScale * (1 * (2 * k + 1))
SweepReg(N, m, dsc, k) ==
    LogScale * 1 + (Log10Fix(SweepLogArg(N, m)) * dsc) + LogScale * (1 * (2 * k - 1))

SweepDefn_const(k) == 1
SweepDefn(k) == 1 * k

SweepEntry(N, m, dsc, k) ==
    [K |-> k,
     Speedup |-> [num |-> SweepReg(N, m, dsc, k), den |-> Max(1, SweepDefn(k))]]

\* chart_data = []; for k in k_range: chart_data.append({...})
\* loop[i] is chart_data after the first i iterations of the loop.
ChartData(N, m, dsc) ==
    LET loop[i \in 0 .. Len(k_range)] ==
            IF i = 0 THEN <<>>
            ELSE Append(loop[i - 1], SweepEntry(N, m, dsc, k_range[i]))
    IN  loop[Len(k_range)]

SweepLogArgs(N, m) == [i \in DOMAIN k_range |-> SweepLogArg(N, m)]

---------------------------------------------------------------------------
(* Tab 2, trade-off computation, lines 126-137 and 166-169.                *)

WritePct(wt) ==
    CASE wt = "Read Heavy (10% Writes)" -> 10
      [] wt = "Balanced (50% Writes)" -> 50
      [] wt = "Write Heavy (90% Writes)" -> 90

ThroughputStd(p) == 20000 + (p * 100)

ThroughputDef_slope(p) == 20000 + (p * 120)
ThroughputDef(p) == 20000 + (p * 1200)

LatencyStd == 5 * LatencyScale

LatencyDef_indexPenalty(p) == 5 * LatencyScale + (p * 5) + K_indexes
LatencyDef(p) == 5 * LatencyScale + (p * 5)

Verdict_inclusive(p) == IF p >= 50 THEN "write-heavy" ELSE "read-heavy"
Verdict(p) == IF p > 50 THEN "write-heavy" ELSE "read-heavy"

---------------------------------------------------------------------------
(* The blocks of the script as state updates.                              *)

CostBlock(N, m, K, dsc) ==
    /\ log_arg' = LogArg(N, m)
    /\ disk_part' = DiskPart(N, m, dsc)
    /\ regular_cost_val' = RegularCost(N, m, K, dsc)
    /\ deferred_cost_val' = DeferredCost(K)
    /\ speedup_factor' = SpeedupFactor(RegularCost(N, m, K, dsc), DeferredCost(K))

SweepBlock(N, m, dsc) ==
    /\ sweep_log_args' = SweepLogArgs(N, m)
    /\ chart_data' = ChartData(N, m, dsc)

TradeoffBlock(p) ==
    /\ write_pct' = p
    /\ throughput_std' = ThroughputStd(p)
    /\ throughput_def' = ThroughputDef(p)
    /\ latency_std' = LatencyStd
    /\ latency_def' = LatencyDef(p)
    /\ verdict' = Verdict(p)

AllBlocks == {"cost", "sweep", "tradeoff"}

\* One execution of the script, lines 1-270, with the given widget values.
\* The script holds no raise statement and no input validation.
Rerun(N, m, K, dsc, wt) ==
    /\ N_tuples' = N
    /\ m_memtable' = m
    /\ K_indexes' = K
    /\ disk_seek_cost' = dsc
    /\ workload_type' = wt
    /\ CostBlock(N, m, K, dsc)
    /\ SweepBlock(N, m, dsc)
    /\ TradeoffBlock(WritePct(wt))
    /\ error' = "None"
    /\ computed' = AllBlocks

---------------------------------------------------------------------------
(* Spec: the dashboard session.  Init is the state after the first run of  *)
(* the script with the widgets' default values.                            *)

Init ==
    /\ N_tuples = N_default
    /\ m_memtable = m_default
    /\ K_indexes = K_default
    /\ disk_seek_cost = seek_default
    /\ workload_type = workload_default
    /\ log_arg = LogArg(N_default, m_default)
    /\ disk_part = DiskPart(N_default, m_default, seek_default)
    /\ regular_cost_val = RegularCost(N_default, m_default, K_default, seek_default)
    /\ deferred_cost_val = DeferredCost(K_default)
    /\ speedup_factor =
           SpeedupFactor(RegularCost(N_default, m_default, K_default, seek_default),
                         DeferredCost(K_default))
    /\ sweep_log_args = SweepLogArgs(N_default, m_default)
    /\ chart_data = ChartData(N_default, m_default, seek_default)
    /\ write_pct = WritePct(workload_default)
    /\ throughput_std = ThroughputStd(WritePct(workload_default))
    /\ throughput_def = ThroughputDef(WritePct(workload_default))
    /\ latency_std = LatencyStd
    /\ latency_def = LatencyDef(WritePct(workload_default))
    /\ verdict = Verdict(WritePct(workload_default))
    /\ error = "None"
    /\ computed = AllBlocks

SetN ==
    \E n \in NValues :
        Rerun(n, m_memtable, K_indexes, disk_seek_cost, workload_type)

SetM ==
    \E m \in MValues :
        Rerun(N_tuples, m, K_indexes, disk_seek_cost, workload_type)

SetK ==
    \E k \in KSlider :
        Rerun(N_tuples, m_memtable, k, disk_seek_cost, workload_type)

SetDiskSeekCost ==
    \E d \in SeekValues :
        Rerun(N_tuples, m_memtable, K_indexes, d, workload_type)

SetWorkloadType ==
    \E wt \in WorkloadOptions :
        Rerun(N_tuples, m_memtable, K_indexes, disk_seek_cost, wt)

Next == SetN \/ SetM \/ SetK \/ SetDiskSeekCost \/ SetWorkloadType

Spec == Init /\ [][Next]_vars

---------------------------------------------------------------------------
(* SpecFn: the three computations taken as functions of their inputs.      *)
(* Init draws a parameter set, in and out of the documented domain, and    *)
(* every action applies one block of the script to it, once.               *)

NoSpeedup == [num |-> 0, den |-> 0]

InitFn ==
    /\ \/ /\ N_tuples \in NValues
          /\ m_memtable \in MValues
          /\ K_indexes \in KDomain
          /\ disk_seek_cost \in SeekValues
          /\ write_pct = WritePct(workload_default)
       \/ /\ N_tuples = N_default
          /\ m_memtable = m_default
          /\ K_indexes = K_default
          /\ disk_seek_cost = seek_default
          /\ write_pct \in WritePctDomain
    /\ workload_type = workload_default
    /\ log_arg = 0
    /\ disk_part = 0
    /\ regular_cost_val = 0
    /\ deferred_cost_val = 0
    /\ speedup_factor = NoSpeedup
    /\ sweep_log_args = <<>>
    /\ chart_data = <<>>
    /\ throughput_std = 0
    /\ throughput_def = 0
    /\ latency_std = 0
    /\ latency_def = 0
    /\ verdict = ""
    /\ error = "None"
    /\ computed = {}

\* Lines 59-69 on the drawn N, m, K, disk_seek_cost.
ComputeUpdateCost ==
    /\ "cost" \notin computed
    /\ CostBlock(N_tuples, m_memtable, K_indexes, disk_seek_cost)
    /\ computed' = computed \cup {"cost"}
    /\ UNCHANGED <<inputs, sweep_log_args, chart_data, tradeoffOutputs, error>>

\* Lines 86-92 on the drawn N, m, disk_seek_cost.
SweepCostByIndexCount ==
    /\ "sweep" \notin computed
    /\ SweepBlock(N_tuples, m_memtable, disk_seek_cost)
    /\ computed' = computed \cup {"sweep"}
    /\ UNCHANGED <<inputs, log_arg, disk_part, regular_cost_val, deferred_cost_val,
                   speedup_factor, tradeoffOutputs, error>>

\* Lines 132-137 and 166-169 on the drawn write_pct.
ComputeTradeoffPoint ==
    /\ "tradeoff" \notin computed
    /\ TradeoffBlock(write_pct)
    /\ computed' = computed \cup {"tradeoff"}
    /\ UNCHANGED <<inputs, costOutputs, error>>

NextFn == ComputeUpdateCost \/ SweepCostByIndexCount \/ ComputeTradeoffPoint

SpecFn == InitFn /\ [][NextFn]_vars

---------------------------------------------------------------------------
(* Properties.                                                             *)

ValidParams ==
    /\ N_tuples >= 1
    /\ 1 <= m_memtable
    /\ m_memtable < N_tuples
    /\ K_indexes >= 1
    /\ disk_seek_cost >= 1

\* C1: whenever m >= N the cost computation reports InvalidParameter and
\* produces no regular_cost, deferred_cost or speedup value.
C1_InvalidInputRejected ==
    m_memtable >= N_tuples => (error = "InvalidParameter" /\ "cost" \notin computed)

\* C2: the swept speedup is non-increasing in K: for all entries with
\* k1 < k2, speedup(k1) >= speedup(k2).
C2_SweepMonotone ==
    \A i, j \in DOMAIN chart_data :
        chart_data[i].K < chart_data[j].K =>
            RatGeq(chart_data[i].Speedup, chart_data[j].Speedup)

C2_Witness ==
    /\ N_tuples # N_default
    /\ disk_part > 0
    /\ RatGt(chart_data[1].Speedup, chart_data[Len(chart_data)].Speedup)

\* C3: for every valid parameter set deferred_cost equals K exactly and the
\* speedup is regular_cost / K (the max(1, .) guard of the divisor is idle).
C3_DeferredEqualsK ==
    ValidParams =>
        /\ deferred_cost_val = K_indexes
        /\ speedup_factor.den = K_indexes
        /\ RatEq(speedup_factor, [num |-> regular_cost_val, den |-> K_indexes])

C3_Witness ==
    /\ ValidParams
    /\ K_indexes = K_min
    /\ N_tuples = 2
    /\ deferred_cost_val = 1

\* C4: the single-point trade-off matches the reference formulas for every
\* write_pct in 0..100: throughput_standard = 20000 + 100*write_pct,
\* throughput_deferred = 20000 + 1200*write_pct, latency_standard = 5.0,
\* latency_deferred = 5.0 + 0.05*write_pct; at 0 both throughputs are 20000 and
\* both latencies 5.0, at 100 the deferred ones are 140000 and 10.0.
C4_TradeoffFormulas ==
    "tradeoff" \in computed =>
        /\ throughput_std = 20000 + 100 * write_pct
        /\ throughput_def = 20000 + 1200 * write_pct
        /\ latency_std = 5 * LatencyScale
        /\ 100 * latency_def = LatencyScale * (500 + 5 * write_pct)
        /\ write_pct = 0 =>
               /\ throughput_std = 20000
               /\ throughput_def = 20000
               /\ latency_std = 5 * LatencyScale
               /\ latency_def = 5 * LatencyScale
        /\ write_pct = 100 =>
               /\ throughput_def = 140000
               /\ latency_def = 10 * LatencyScale

C4_Witness ==
    /\ "tradeoff" \in computed
    /\ write_pct = 100
    /\ throughput_def = 140000

\* C5: the verdict is write-heavy exactly when the current write_pct > 50 and
\* read-heavy otherwise (write_pct = 50 is read-heavy), whatever was selected
\* before.
C5_VerdictThreshold ==
    /\ write_pct = WritePct(workload_type)
    /\ verdict \in {"write-heavy", "read-heavy"}
    /\ verdict = "write-heavy" <=> write_pct > 50

C5_Witness ==
    /\ workload_type = "Write Heavy (90% Writes)"
    /\ verdict = "write-heavy"

\* C6: for every integer N, m, K, out-of-domain ones included, the argument of
\* the logarithm is >= 1 and the divisor of the speedup is >= 1, in the
\* single-point computation and in every step of the sweep, so the disk
\* penalty is >= 0.
C6_ArithmeticDefined ==
    /\ "cost" \in computed =>
           /\ log_arg >= 1
           /\ disk_part >= 0
           /\ speedup_factor.den >= 1
    /\ "sweep" \in computed =>
           \A i \in DOMAIN chart_data :
               /\ sweep_log_args[i] >= 1
               /\ chart_data[i].Speedup.den >= 1

C6_Witness ==
    /\ computed = AllBlocks
    /\ K_indexes = 0
    /\ N_tuples <= 0
    /\ m_memtable >= N_tuples

\* C7: the sweep holds one (K, speedup) pair per K of k_range, in order, each
\* speedup equal to the single-point speedup for that K; the entry at the
\* selected K_indexes equals speedup_factor.
C7_SweepIsPointwise ==
    /\ Len(chart_data) = Len(k_range)
    /\ \A i \in DOMAIN chart_data :
           /\ chart_data[i].K = k_range[i]
           /\ RatEq(chart_data[i].Speedup,
                    SpeedupFactor(RegularCost(N_tuples, m_memtable, k_range[i],
                                              disk_seek_cost),
                                  DeferredCost(k_range[i])))
           /\ chart_data[i].K = K_indexes =>
                  RatEq(chart_data[i].Speedup, speedup_factor)

C7_Witness ==
    /\ K_indexes = K_max
    /\ N_tuples = 2
    /\ m_memtable = 1
    /\ chart_data[K_max].Speedup = speedup_factor

\* C8: a step that leaves N, m, K and disk_seek_cost alone leaves every cost
\* output alone, and a step that leaves the workload selection alone leaves
\* every trade-off output alone.
C8_CalculatorsIndependent ==
    [][ /\ costParams' = costParams => costOutputs' = costOutputs
        /\ workload_type' = workload_type => tradeoffOutputs' = tradeoffOutputs ]_vars

C8_Witness ==
    /\ N_tuples # N_default
    /\ K_indexes # K_default
    /\ workload_type # workload_default

===========================================================================
